---- MODULE Spec2Model ----
(***************************************************************************)
(* The ThingSpeak -> Firebase relay of src/server.js: the polling cycle    *)
(* checkAndUpdateFirebase, the upstream channel it samples, the downstream *)
(* record 'HomeFragment' it updates, the periodic timer, the /health        *)
(* endpoint, and the process: its start, its signal handlers and its       *)
(* uncaught-error handlers.                                                *)
(***************************************************************************)
EXTENDS Integers, FiniteSets, Sequences, Bags, TLC

\* ------------------------------------------------------------------ bounds
\* Entries the upstream channel receives during a run.
MaxEntry == 2
\* Calls of checkAndUpdateFirebase that may be awaiting at the same time.
MaxInFlight == 2
\* Cap on consecutiveErrors (the code's counter is unbounded).
MaxErrors == 6
\* Cap on the history count of failed cycles in a row.
MaxRun == 2

\* ------------------------------------------------------- program constants
MAX_CONSECUTIVE_ERRORS == 5
CHECK_INTERVAL == 15000
\* Escalation ceiling of the design document (no counterpart in the code).
CeilingMs == 300000

\* lastEntryId = null; entry ids of the channel start at 1.
Null == 0
\* JavaScript's NaN; every other number is a coordinate in tenths of a degree.
NaN == -1

VARIABLES
    channel,            \* upstream: the channel's latest feed (entry_id = 0: no feeds)
    HomeFragment,       \* downstream: the record at db.ref('HomeFragment')
    lastEntryId,        \* server.js:30
    consecutiveErrors,  \* server.js:31
    intervalMs,         \* period of the timer armed at server.js:179
    cyc,                \* the calls of checkAndUpdateFirebase that are awaiting (a bag)
    log,                \* the last console line
    written,            \* history: the entry ids an update() call has stored
    firstId,            \* history: the entry id adopted on the cold start
    failRun,            \* history: failed cycles since the last successful one (up to MaxRun)
    stale,              \* history: the staleness window has passed since the last successful cycle
    response,           \* the HTTP response the step just taken has sent
    proc,               \* the process: "starting", "running" or "exited"
    exitCode,           \* the code given to process.exit ("none" before)
    timerArmed,         \* the interval timer of server.js:179 is armed
    listener,           \* the HTTP listener: "none", "listening" or "closing"
    signal,             \* the shutdown signal the process has received ("none" before)
    handlersRun,        \* history: signal handlers that have run
    abandoned,          \* history: the exit dropped calls that were awaiting
    thrown,             \* the error the step just taken has thrown into the catch block
    env,                \* process.env: which of the two required settings are present
    hook,               \* webhook server: the request whose set() is awaited
    hookStatus,         \* webhook server: the HTTP status the step just taken has answered
    snapshot,           \* client: the snapshot the step just taken has delivered
    latestIgnition,     \* main screen: latestIgnition
    lastLocationRef,    \* main screen: lastLocationRef.current
    locationFromDB,     \* main screen: the displayed vehicle position
    firebaseListenerRef, \* expanded map screen: firebaseListenerRef.current is set
    attached,           \* expanded map screen: 'value' listeners it has attached to the store
    mounted,            \* expanded map screen: the component is mounted
    loading,            \* expanded map screen: loading
    vehicleLocation,    \* expanded map screen: the displayed vehicle position
    lastVehicleLocationRef \* expanded map screen: lastVehicleLocationRef.current

vars == <<channel, HomeFragment, lastEntryId, consecutiveErrors, intervalMs, cyc,
          log, written, firstId, failRun, stale, response,
          proc, exitCode, timerArmed, listener, signal, handlersRun, abandoned,
          thrown, env, hook, hookStatus, snapshot, latestIgnition, lastLocationRef,
          locationFromDB, firebaseListenerRef, attached, mounted, loading,
          vehicleLocation, lastVehicleLocationRef>>

\* The process and its handles.
life == <<proc, exitCode, timerArmed, listener, signal, handlersRun, abandoned>>

\* The webhook server and the two screens of the client: other programs of
\* the repository, which share only the store record with the poller.
main == <<latestIgnition, lastLocationRef, locationFromDB>>
expanded == <<firebaseListenerRef, attached, mounted, loading, vehicleLocation,
              lastVehicleLocationRef>>
client == <<snapshot, main, expanded>>
side == <<hook, hookStatus, client>>

\* The poller's own variables other than the store record.
poller == <<channel, lastEntryId, consecutiveErrors, intervalMs, cyc, log, written,
            firstId, failRun, stale, response, thrown>>

\* ------------------------------------------------------------- upstream
\* The raw field7/field8 pairs an entry may carry.
Payloads ==
    { [field7 |-> "77.6", field8 |-> "12.9"],
      [field7 |-> "0",    field8 |-> "0"],
      [field7 |-> "abc",  field8 |-> "12.9"],
      [field7 |-> "77.6", field8 |-> "abc"] }

NoFeeds == [entry_id |-> 0, field7 |-> "null", field8 |-> "null"]

\* JavaScript Number(x) on the raw field values of the channel.
Number(raw) ==
    CASE raw = "12.9" -> 129
      [] raw = "77.6" -> 776
      [] raw = "0"    -> 0
      [] raw = "null" -> 0
      [] OTHER        -> NaN

isNaN(x) == x = NaN

\* The object fetchLatestThingSpeak returns for a feed (server.js:53-63).
Sample(feed) ==
    [entryId   |-> feed.entry_id,
     latitude  |-> Number(feed.field8),
     longitude |-> Number(feed.field7),
     createdAt |-> feed.entry_id]

NoSample == [entryId |-> Null, latitude |-> 0, longitude |-> 0, createdAt |-> 0]

\* ------------------------------------------------------------- /health
\* The errors thrown into the catch block: what error.message tells.
NoError == [kind |-> "none", status |-> 0]
TimeoutError == [kind |-> "Request timeout", status |-> 0]
NetworkError == [kind |-> "network", status |-> 0]
ApiErrorMutant(status) == [kind |-> "ThingSpeak API error", status |-> 0]
ApiError(status) == [kind |-> "ThingSpeak API error", status |-> status]
BodyError == [kind |-> "body", status |-> 0]
EmptyError == [kind |-> "No data found in ThingSpeak channel", status |-> 0]
WriteError == [kind |-> "write", status |-> 0]

\* The statuses of a response that is not ok.
BadStatuses == {404, 500}

\* A field that a record or a request body does not have (undefined).
Absent == -2

\* The webhook server has received no request.
NoHook == [field1 |-> Absent, field2 |-> Absent, pending |-> FALSE]
NoLocation == << >>

\* A stored value that is a string and not the text of a number.
Text == -3

\* No snapshot is delivered.
NoSnapshot == [Latitude |-> Absent, Longitude |-> Absent, IgnitionStatus |-> Absent,
               screen |-> "none"]

\* route.params.targetLocation of the expanded map screen.
targetLocation == <<775, 130>>

NoResponse == [status |-> "none", lastEntryId |-> Null, consecutiveErrors |-> 0]

\* The body res.json() sends (server.js:142-153); uptime, memory and timestamp
\* are left out.
HealthBody(last, errors) ==
    [status |-> "OK", lastEntryId |-> last, consecutiveErrors |-> errors]

\* --------------------------------------------------------- cycle helpers
\* A call that awaits fetch(), response.json() or update().
\* attempt: the attempt of the awaited call this is (the code makes one);
\* timeoutArmed: the abort timer of server.js:41 is armed (cleared at :44).
Fetching == [pc |-> "fetch", feed |-> NoFeeds, sample |-> NoSample,
             attempt |-> 1, timeoutArmed |-> TRUE]
Parsing(feed) == [pc |-> "json", feed |-> feed, sample |-> NoSample,
                  attempt |-> 1, timeoutArmed |-> FALSE]
Writing(s) == [pc |-> "write", feed |-> NoFeeds, sample |-> s,
               attempt |-> 1, timeoutArmed |-> FALSE]

InFlight == BagToSet(cyc)
Started(r) == cyc (+) SetToBag({r})
Finished(r) == cyc (-) SetToBag({r})
Moved(r, q) == (cyc (-) SetToBag({r})) (+) SetToBag({q})

\* server.js:88 -- the sample is the one already accepted.
IsDuplicateMutant(entryId, last) == FALSE
IsDuplicate(entryId, last) == entryId = last

\* server.js:108 -- the guard of the downstream write.
CoordsValidMutant(latitude, longitude) == ~isNaN(latitude)
CoordsValid(latitude, longitude) == ~isNaN(latitude) /\ ~isNaN(longitude)

\* server.js:126-130 -- what the catch block does to the poll interval.
IntervalAfterErrorMutant(interval, errors) ==
    IF errors >= MAX_CONSECUTIVE_ERRORS THEN 2 * interval ELSE interval
IntervalAfterError(interval, errors) == interval

\* server.js:118 -- the accepted entry id after update() has resolved.
LastAfterWriteMutant(last, entryId) == last
LastAfterWrite(last, entryId) == entryId

\* server.js:109-115 -- update() merges these fields into the record.
Update(record, s) ==
    [record EXCEPT !.Latitude = s.latitude,
                   !.Longitude = s.longitude,
                   !.updatedAt = "now",
                   !.thingSpeakEntryId = s.entryId,
                   !.thingSpeakTimestamp = s.createdAt]

\* ------------------------------------------------------------------ Init
Init ==
    /\ channel = NoFeeds
    /\ HomeFragment = [Latitude |-> 130, Longitude |-> 775, updatedAt |-> "before",
                       thingSpeakEntryId |-> Null, thingSpeakTimestamp |-> 0,
                       IgnitionStatus |-> 1]
    /\ lastEntryId = Null
    /\ consecutiveErrors = 0
    /\ intervalMs = CHECK_INTERVAL
    /\ cyc = EmptyBag
    /\ log = "none"
    /\ written = {}
    /\ firstId = Null
    /\ failRun = 0
    /\ stale = FALSE
    /\ response = NoResponse
    /\ proc = "starting"
    /\ exitCode = "none"
    /\ timerArmed = FALSE
    /\ listener = "none"
    /\ signal = "none"
    /\ handlersRun = 0
    /\ abandoned = FALSE
    /\ thrown = NoError
    /\ env \in [SERVICEACCOUNTKEY : BOOLEAN, FIREBASE_DATABASE_URL : BOOLEAN]
    /\ hook = NoHook
    /\ hookStatus = 0
    /\ snapshot = NoSnapshot
    /\ latestIgnition = Absent
    /\ lastLocationRef = NoLocation
    /\ locationFromDB = NoLocation
    /\ firebaseListenerRef = FALSE
    /\ attached = 0
    /\ mounted = TRUE
    /\ loading = FALSE
    /\ vehicleLocation = targetLocation
    /\ lastVehicleLocationRef = NoLocation

\* ----------------------------------------------------------- the process
\* process.exit(code): the process ends and its memory and its pending calls
\* end with it; the timer and the listener are left as the exit found them.
Exits(code) ==
    /\ proc' = "exited"
    /\ exitCode' = code
    /\ abandoned' = (cyc # EmptyBag)
    /\ cyc' = EmptyBag
    /\ lastEntryId' = Null
    /\ consecutiveErrors' = 0

\* The calls of checkAndUpdateFirebase the module makes itself while it loads.
StartupCyclesMutant == EmptyBag

StartupCycles == SetToBag({Fetching})

\* The handlers registered for a signal, in the order of their registration:
\* "exit0" logs and calls process.exit(0); "graceful" clears the interval
\* timer and calls server.close with a callback that exits.
HandlersForSwapped(sig) ==
    IF sig = "SIGTERM" THEN <<"graceful", "exit0">> ELSE <<"exit0">>

HandlersForGracefulOnly(sig) ==
    IF sig = "SIGTERM" THEN <<"graceful">> ELSE <<"exit0">>

HandlersForLogOnly(sig) == <<"log">>

HandlersFor(sig) ==
    IF sig = "SIGTERM" THEN <<"exit0", "graceful">> ELSE <<"exit0">>

\* The handlers that run when the signal is emitted: the listeners are called
\* in order, and none is called after one has exited the process.
HandlersRan(hs) ==
    LET exits == {i \in 1..Len(hs) : hs[i] = "exit0"} IN
      IF exits = {} THEN hs
      ELSE SubSeq(hs, 1, CHOOSE i \in exits : \A j \in exits : i <= j)

Signals == {"SIGTERM", "SIGINT"}

\* lastEntryId after the test of server.js:85-87 on a sample that is not a
\* duplicate.
LastAfterFirstSeenMutant(last, entryId) == entryId

LastAfterFirstSeen(last, entryId) == IF last = Null THEN entryId ELSE last

\* --------------------------------------------------------------- actions
\* The settings without which the module does not load: JSON.parse of a
\* missing SERVICEACCOUNTKEY throws (server.js:19), and admin.database()
\* throws when the app has no databaseURL (server.js:22-27).
ConfigOkMutant(e) == e.SERVICEACCOUNTKEY

ConfigOk(e) == e.SERVICEACCOUNTKEY /\ e.FIREBASE_DATABASE_URL

\* The module loads (server.js:1-190). With its settings present the interval
\* timer is armed, the startup call runs up to its first await and the
\* listener starts; without them the load throws before any handler is
\* registered and the process ends with code 1.
Startup ==
    /\ proc = "starting"
    /\ IF ConfigOk(env)
       THEN /\ proc' = "running"
            /\ timerArmed' = TRUE
            /\ cyc' = StartupCycles
            /\ listener' = "listening"
            /\ UNCHANGED <<log, exitCode>>
       ELSE /\ proc' = "exited"
            /\ exitCode' = 1
            /\ log' = "crash"
            /\ UNCHANGED <<timerArmed, cyc, listener>>
    /\ response' = NoResponse
    /\ thrown' = NoError
    /\ UNCHANGED <<env, side>>
    /\ UNCHANGED <<channel, HomeFragment, lastEntryId, consecutiveErrors, intervalMs,
                   written, firstId, failRun, stale, signal, handlersRun, abandoned>>

\* The process receives SIGTERM or SIGINT and its handlers run
\* (server.js:157-165, 193-200).
Signal(sig) ==
    /\ proc = "running"
    /\ LET ran == HandlersRan(HandlersFor(sig))
           kinds == {ran[i] : i \in 1..Len(ran)}
       IN /\ signal' = sig
          /\ handlersRun' = IF handlersRun + Len(ran) > MaxRun THEN MaxRun
                            ELSE handlersRun + Len(ran)
          /\ timerArmed' = (timerArmed /\ "graceful" \notin kinds)
          /\ listener' = IF "graceful" \in kinds THEN "closing" ELSE listener
          /\ IF "exit0" \in kinds
             THEN Exits(0)
             ELSE UNCHANGED <<proc, exitCode, abandoned, cyc, lastEntryId,
                              consecutiveErrors>>
    /\ log' = "shutdown"
    /\ response' = NoResponse
    /\ thrown' = NoError
    /\ UNCHANGED <<env, side>>
    /\ UNCHANGED <<channel, HomeFragment, intervalMs, written, firstId, failRun, stale>>

\* An error that no try block catches, or a rejection that nothing handles,
\* reaches the process-level handlers without exiting.
UncaughtMutant ==
    /\ proc = "running"
    /\ log' = "uncaught"
    /\ response' = NoResponse
    /\ thrown' = NoError
    /\ UNCHANGED <<env, side>>
    /\ UNCHANGED <<channel, HomeFragment, lastEntryId, consecutiveErrors, intervalMs,
                   cyc, written, firstId, failRun, stale, life>>

\* An error that no try block catches, or a rejection that nothing handles,
\* reaches the process-level handlers (server.js:168-176).
Uncaught ==
    /\ proc = "running"
    /\ log' = "uncaught"
    /\ Exits(1)
    /\ response' = NoResponse
    /\ thrown' = NoError
    /\ UNCHANGED <<env, side>>
    /\ UNCHANGED <<channel, HomeFragment, intervalMs, written, firstId, failRun, stale,
                   timerArmed, listener, signal, handlersRun>>

\* The device posts a new entry to the channel.
UpstreamPost ==
    /\ channel.entry_id < MaxEntry
    /\ \E p \in Payloads :
         channel' = [entry_id |-> channel.entry_id + 1,
                     field7 |-> p.field7, field8 |-> p.field8]
    /\ response' = NoResponse
    /\ thrown' = NoError
    /\ UNCHANGED <<env, side>>
    /\ UNCHANGED <<HomeFragment, lastEntryId, consecutiveErrors, intervalMs, cyc, log,
                   written, firstId, failRun, stale, life>>

\* The interval timer fires and calls checkAndUpdateFirebase, which runs up to
\* `await fetch(url, ...)` (server.js:179, 75-80, 36-43).
Tick ==
    /\ proc = "running"
    /\ timerArmed
    /\ BagCardinality(cyc) < MaxInFlight
    /\ cyc' = Started(Fetching)
    /\ response' = NoResponse
    /\ thrown' = NoError
    /\ UNCHANGED <<env, side>>
    /\ UNCHANGED <<channel, HomeFragment, lastEntryId, consecutiveErrors, intervalMs,
                   log, written, firstId, failRun, stale, life>>

\* The timer fires after the previous call has returned.
TickIdle ==
    /\ cyc = EmptyBag
    /\ Tick

\* A catch block that logs, counts and throws the error again: the rejection
\* of the call reaches the unhandledRejection handler.
CatchMutant(r) ==
    /\ consecutiveErrors < MaxErrors
    /\ consecutiveErrors' = consecutiveErrors + 1
    /\ intervalMs' = intervalMs
    /\ log' = "error"
    /\ cyc' = Finished(r)
    /\ failRun' = IF failRun < MaxRun THEN failRun + 1 ELSE failRun
    /\ response' = NoResponse
    /\ UNCHANGED <<env, side>>
    /\ proc' = "exited"
    /\ exitCode' = 1
    /\ UNCHANGED <<stale, timerArmed, listener, signal, handlersRun, abandoned>>

\* The catch block of checkAndUpdateFirebase (server.js:122-134).
Catch(r) ==
    /\ consecutiveErrors < MaxErrors
    /\ consecutiveErrors' = consecutiveErrors + 1
    /\ intervalMs' = IntervalAfterError(intervalMs, consecutiveErrors + 1)
    /\ log' = "error"
    /\ cyc' = Finished(r)
    /\ failRun' = IF failRun < MaxRun THEN failRun + 1 ELSE failRun
    /\ response' = NoResponse
    /\ UNCHANGED <<env, side>>
    /\ UNCHANGED <<stale, life>>

\* The response headers arrive with a success status: the cycle goes on to
\* `await response.json()`; the body holds the channel's latest feed.
FetchResponse(r) ==
    /\ proc = "running"
    /\ r.pc = "fetch"
    /\ cyc' = Moved(r, Parsing(channel))
    /\ response' = NoResponse
    /\ thrown' = NoError
    /\ UNCHANGED <<env, side>>
    /\ UNCHANGED <<channel, HomeFragment, lastEntryId, consecutiveErrors, intervalMs,
                   log, written, firstId, failRun, stale, life>>

\* A fetch that is called once more after its first rejection.
FetchFailMutant(r) ==
    /\ proc = "running"
    /\ r.pc = "fetch"
    /\ IF r.attempt = 1
       THEN /\ cyc' = Moved(r, [r EXCEPT !.attempt = r.attempt + 1])
            /\ response' = NoResponse
            /\ thrown' = NoError
            /\ UNCHANGED <<env, side>>
            /\ UNCHANGED <<consecutiveErrors, intervalMs, log, failRun, stale, life>>
       ELSE Catch(r) /\ thrown' = NetworkError
    /\ UNCHANGED <<channel, HomeFragment, lastEntryId, written, firstId>>

\* The abort timer of the call fires (server.js:41): fetch rejects with an
\* AbortError, which becomes 'Request timeout' (server.js:67-69).
FetchTimeout(r) ==
    /\ proc = "running"
    /\ r.timeoutArmed
    /\ Catch(r)
    /\ thrown' = TimeoutError
    /\ UNCHANGED <<channel, HomeFragment, lastEntryId, written, firstId>>

\* fetch rejects with a network error, which is thrown on (server.js:70).
FetchFail(r) ==
    /\ proc = "running"
    /\ r.pc = "fetch"
    /\ Catch(r)
    /\ thrown' = NetworkError
    /\ UNCHANGED <<channel, HomeFragment, lastEntryId, written, firstId>>

\* The response headers arrive with a status that is not ok (server.js:46-48).
FetchStatus(r) ==
    /\ proc = "running"
    /\ r.pc = "fetch"
    /\ Catch(r)
    /\ \E status \in BadStatuses : thrown' = ApiError(status)
    /\ UNCHANGED <<channel, HomeFragment, lastEntryId, written, firstId>>

\* The body holds no feed (server.js:52, 65).
JsonEmpty(r) ==
    /\ proc = "running"
    /\ r.pc = "json"
    /\ r.feed.entry_id = 0
    /\ Catch(r)
    /\ thrown' = EmptyError
    /\ UNCHANGED <<channel, HomeFragment, lastEntryId, written, firstId>>

\* The body cannot be read or parsed: response.json() rejects.
JsonFail(r) ==
    /\ proc = "running"
    /\ r.pc = "json"
    /\ Catch(r)
    /\ thrown' = BodyError
    /\ UNCHANGED <<channel, HomeFragment, lastEntryId, written, firstId>>

\* The body is parsed and holds a feed: server.js:52-63 and 80-121, up to the
\* return, the warning or `await db.ref('HomeFragment').update(...)`.
JsonDone(r) ==
    /\ proc = "running"
    /\ r.pc = "json"
    /\ r.feed.entry_id # 0
    /\ LET s == Sample(r.feed) IN
         /\ consecutiveErrors' = 0
         /\ IF lastEntryId # Null /\ IsDuplicate(s.entryId, lastEntryId)
            THEN /\ log' = "nonew"
                 /\ cyc' = Finished(r)
                 /\ failRun' = 0
                 /\ stale' = FALSE
                 /\ UNCHANGED <<lastEntryId, firstId>>
            ELSE /\ lastEntryId' = LastAfterFirstSeen(lastEntryId, s.entryId)
                 /\ firstId' = IF lastEntryId = Null THEN s.entryId ELSE firstId
                 /\ IF CoordsValid(s.latitude, s.longitude)
                    THEN /\ cyc' = Moved(r, Writing(s))
                         /\ log' = "newdata"
                         /\ UNCHANGED <<failRun, stale>>
                    ELSE /\ cyc' = Finished(r)
                         /\ log' = "invalid"
                         /\ failRun' = 0
                         /\ stale' = FALSE
    /\ response' = NoResponse
    /\ thrown' = NoError
    /\ UNCHANGED <<env, side>>
    /\ UNCHANGED <<channel, HomeFragment, intervalMs, written, life>>

\* update() resolves: server.js:117-118.
WriteOk(r) ==
    /\ proc = "running"
    /\ r.pc = "write"
    /\ HomeFragment' = Update(HomeFragment, r.sample)
    /\ lastEntryId' = LastAfterWrite(lastEntryId, r.sample.entryId)
    /\ log' = "updated"
    /\ cyc' = Finished(r)
    /\ failRun' = 0
    /\ stale' = FALSE
    /\ response' = NoResponse
    /\ thrown' = NoError
    /\ UNCHANGED <<env, side>>
    /\ written' = written \cup {r.sample.entryId}
    /\ UNCHANGED <<channel, consecutiveErrors, intervalMs, firstId, life>>

\* update() rejects.
WriteFail(r) ==
    /\ proc = "running"
    /\ r.pc = "write"
    /\ Catch(r)
    /\ thrown' = WriteError
    /\ UNCHANGED <<channel, HomeFragment, lastEntryId, written, firstId>>

\* A health handler that clears the error counter when it is probed.
HealthMutant ==
    /\ proc = "running"
    /\ listener = "listening"
    /\ response' = HealthBody(lastEntryId, consecutiveErrors)
    /\ thrown' = NoError
    /\ UNCHANGED <<env, side>>
    /\ consecutiveErrors' = 0
    /\ UNCHANGED <<channel, HomeFragment, lastEntryId, intervalMs,
                   cyc, log, written, firstId, failRun, stale, life>>

\* GET /health (server.js:138-154).
Health ==
    /\ proc = "running"
    /\ listener = "listening"
    /\ response' = HealthBody(lastEntryId, consecutiveErrors)
    /\ thrown' = NoError
    /\ UNCHANGED <<env, side>>
    /\ UNCHANGED <<channel, HomeFragment, lastEntryId, consecutiveErrors, intervalMs,
                   cyc, log, written, firstId, failRun, stale, life>>

\* More than the staleness window passes without a successful cycle.
WindowElapses ==
    /\ ~stale
    /\ stale' = TRUE
    /\ response' = NoResponse
    /\ thrown' = NoError
    /\ UNCHANGED <<env, side>>
    /\ UNCHANGED <<channel, HomeFragment, lastEntryId, consecutiveErrors, intervalMs,
                   cyc, log, written, firstId, failRun, life>>

Next ==
    \/ UpstreamPost
    \/ Startup
    \/ \E sig \in Signals : Signal(sig)
    \/ Uncaught
    \/ Health
    \/ Tick
    \/ \E r \in InFlight : FetchResponse(r)
    \/ \E r \in InFlight : FetchTimeout(r)
    \/ \E r \in InFlight : FetchFail(r)
    \/ \E r \in InFlight : FetchStatus(r)
    \/ \E r \in InFlight : JsonEmpty(r)
    \/ \E r \in InFlight : JsonFail(r)
    \/ \E r \in InFlight : JsonDone(r)
    \/ \E r \in InFlight : WriteOk(r)
    \/ \E r \in InFlight : WriteFail(r)

Spec == Init /\ [][Next]_vars

\* The program when every call returns before the timer fires again, with the
\* clock of the staleness window beside it.
NextSerial ==
    \/ UpstreamPost
    \/ WindowElapses
    \/ Startup
    \/ \E sig \in Signals : Signal(sig)
    \/ Uncaught
    \/ Health
    \/ TickIdle
    \/ \E r \in InFlight : FetchResponse(r)
    \/ \E r \in InFlight : FetchTimeout(r)
    \/ \E r \in InFlight : FetchFail(r)
    \/ \E r \in InFlight : FetchStatus(r)
    \/ \E r \in InFlight : JsonEmpty(r)
    \/ \E r \in InFlight : JsonFail(r)
    \/ \E r \in InFlight : JsonDone(r)
    \/ \E r \in InFlight : WriteOk(r)
    \/ \E r \in InFlight : WriteFail(r)

SerialSpec == Init /\ [][NextSerial]_vars

\* Some step of the call r that is awaiting: what it awaits settles.
Settles(r) ==
    \/ FetchResponse(r) \/ FetchTimeout(r) \/ FetchFail(r) \/ FetchStatus(r)
    \/ JsonEmpty(r) \/ JsonFail(r) \/ JsonDone(r)
    \/ WriteOk(r) \/ WriteFail(r)

\* The serialized program with a timer that keeps firing (setInterval,
\* server.js:179), awaited calls that settle, and an upstream and a store
\* that succeed again and again: a fetch, a body and an update() that are
\* awaited infinitely often eventually resolve.
FairSpec ==
    /\ SerialSpec
    /\ WF_vars(TickIdle)
    /\ WF_vars(\E r \in InFlight : Settles(r))
    /\ SF_vars(\E r \in InFlight : FetchResponse(r))
    /\ SF_vars(\E r \in InFlight : JsonDone(r))
    /\ SF_vars(\E r \in InFlight : WriteOk(r))

\* ======================================================================
\* The webhook server (part_000:64-102), a program of its own that writes the
\* same store record.

\* The values a coordinate field of a JSON request body takes here: numbers,
\* or no field at all.
BodyValues == {Absent, 0, 129, 776}

\* What `field1 && field2` asks of each field (part_000:81).
Truthy(x) == x # Absent /\ x # 0

\* db.ref('HomeFragment').set({...}) (part_000:82-86): the record becomes the
\* object given, and every field the object does not name is gone.
SetRecord(field1, field2) ==
    [Latitude |-> field1, Longitude |-> field2, updatedAt |-> "now",
     thingSpeakEntryId |-> Absent, thingSpeakTimestamp |-> Absent,
     IgnitionStatus |-> Absent]

\* POST /thingspeak-webhook arrives (part_000:77-91): the handler runs up to
\* `await db.ref('HomeFragment').set(...)`, or answers 400.
WebhookPost ==
    /\ ~hook.pending
    /\ \E field1 \in BodyValues, field2 \in BodyValues :
         IF Truthy(field1) /\ Truthy(field2)
         THEN /\ hook' = [field1 |-> field1, field2 |-> field2, pending |-> TRUE]
              /\ hookStatus' = 0
         ELSE /\ hook' = [field1 |-> field1, field2 |-> field2, pending |-> FALSE]
              /\ hookStatus' = 400
    /\ UNCHANGED <<HomeFragment, poller, life, env, client>>

\* set() resolves (part_000:87-88).
WebhookSetOk ==
    /\ hook.pending
    /\ HomeFragment' = SetRecord(hook.field1, hook.field2)
    /\ hook' = [hook EXCEPT !.pending = FALSE]
    /\ hookStatus' = 200
    /\ UNCHANGED <<poller, life, env, client>>

\* set() rejects (part_000:92-95).
WebhookSetFail ==
    /\ hook.pending
    /\ hook' = [hook EXCEPT !.pending = FALSE]
    /\ hookStatus' = 500
    /\ UNCHANGED <<HomeFragment, poller, life, env, client>>

NextWebhook ==
    \/ WebhookPost
    \/ WebhookSetOk
    \/ WebhookSetFail

WebhookSpec == Init /\ [][NextWebhook]_vars

\* ======================================================================
\* The client: the main screen (part_002) and the expanded map screen
\* (server.js:202-549) of the mobile application.
\* ======================================================================

\* What a field of a snapshot of /HomeFragment can hold: nothing, a string
\* that is not the text of a number, or a number (coordinates in tenths).
SnapValues == {Absent, Text, 0, 129}

\* What IgnitionStatus can hold: nothing, 0, 1, or a number that is neither.
IgnitionValues == {Absent, 0, 1, 2}

Snapshots ==
    [Latitude : SnapValues, Longitude : SnapValues, IgnitionStatus : IgnitionValues]

\* The snapshot, as delivered to the listener of a screen.
Delivered(snap, screen) ==
    [Latitude |-> snap.Latitude, Longitude |-> snap.Longitude,
     IgnitionStatus |-> snap.IgnitionStatus, screen |-> screen]

\* Number(x) of a stored value (part_002:259-260): a number is itself, and
\* undefined and a non-numeric string are NaN.
NumberOfValue(x) == IF x \in {Absent, Text} THEN NaN ELSE x

\* typeof x === 'number' of a stored value (server.js:283).
IsNumber(x) == x \notin {Absent, Text}

\* The position an ignition-off snapshot displays when one is recorded
\* (part_002:272-275): the recorded one.
FrozenLocationMutant(recorded, lng, lat) == <<lng, lat>>

FrozenLocation(recorded, lng, lat) == recorded

\* onData of the main screen (part_002:254-289): a snapshot of /HomeFragment
\* arrives at the listener the main screen keeps attached.
OnData ==
    /\ \E snap \in Snapshots :
         LET lat == NumberOfValue(snap.Latitude)
             lng == NumberOfValue(snap.Longitude)
             ignition == snap.IgnitionStatus
         IN  /\ snapshot' = Delivered(snap, "main")
             /\ latestIgnition' = ignition
             /\ IF ~isNaN(lat) /\ ~isNaN(lng)
                THEN IF ignition = 1
                     THEN /\ lastLocationRef' = <<lng, lat>>
                          /\ locationFromDB' = <<lng, lat>>
                     ELSE IF ignition = 0
                          THEN IF lastLocationRef # NoLocation
                               THEN /\ locationFromDB' =
                                         FrozenLocation(lastLocationRef, lng, lat)
                                    /\ UNCHANGED lastLocationRef
                               ELSE /\ lastLocationRef' = <<lng, lat>>
                                    /\ locationFromDB' = <<lng, lat>>
                          ELSE /\ locationFromDB' = NoLocation
                               /\ UNCHANGED lastLocationRef
                ELSE /\ locationFromDB' = NoLocation
                     /\ UNCHANGED lastLocationRef
    /\ UNCHANGED <<HomeFragment, poller, life, env, hook, hookStatus, expanded>>

\* The listeners left at the path after firebaseListenerRef.current.off()
\* (server.js:312): none.
AfterOffMutant(n) == n

AfterOff(n) == 0

\* onButtonPress(2) of the expanded map screen (server.js:334-344), with
\* stopVehicleLocationListener (310-315) and startVehicleLocationListener
\* (270-276, 302-306) inside it: the third button toggles the listener.
Press ==
    /\ mounted
    /\ IF firebaseListenerRef
       THEN /\ attached' = AfterOff(attached)
            /\ firebaseListenerRef' = FALSE
            /\ UNCHANGED loading
       ELSE /\ loading' = TRUE
            /\ firebaseListenerRef' = TRUE
            /\ attached' = attached + 1
    /\ snapshot' = NoSnapshot
    /\ UNCHANGED <<HomeFragment, poller, life, env, hook, hookStatus, main, mounted,
                   vehicleLocation, lastVehicleLocationRef>>

\* onData of the expanded map screen (server.js:277-300): a snapshot arrives
\* at the listener the third button has attached.
OnDataExpanded ==
    /\ mounted
    /\ attached > 0
    /\ \E snap \in Snapshots :
         LET lat == snap.Latitude
             lng == snap.Longitude
             ignition == snap.IgnitionStatus
         IN  /\ snapshot' = Delivered(snap, "expanded")
             /\ IF IsNumber(lat) /\ IsNumber(lng)
                THEN IF ignition = 1
                     THEN /\ lastVehicleLocationRef' = <<lng, lat>>
                          /\ vehicleLocation' = <<lng, lat>>
                     ELSE IF ignition = 0
                          THEN IF lastVehicleLocationRef # NoLocation
                               THEN /\ vehicleLocation' = lastVehicleLocationRef
                                    /\ UNCHANGED lastVehicleLocationRef
                               ELSE /\ lastVehicleLocationRef' = <<lng, lat>>
                                    /\ vehicleLocation' = <<lng, lat>>
                          ELSE UNCHANGED <<vehicleLocation, lastVehicleLocationRef>>
                ELSE UNCHANGED <<vehicleLocation, lastVehicleLocationRef>>
    /\ loading' = FALSE
    /\ UNCHANGED <<HomeFragment, poller, life, env, hook, hookStatus, main,
                   firebaseListenerRef, attached, mounted>>

\* The store cancels the listener of the expanded map screen and calls its
\* error callback (server.js:302-305); the reference stays set.
ListenerCancelled ==
    /\ mounted
    /\ attached > 0
    /\ attached' = attached - 1
    /\ loading' = FALSE
    /\ snapshot' = NoSnapshot
    /\ UNCHANGED <<HomeFragment, poller, life, env, hook, hookStatus, main,
                   firebaseListenerRef, mounted, vehicleLocation,
                   lastVehicleLocationRef>>

\* The expanded map screen is left: the cleanup of its effect runs
\* stopVehicleLocationListener (server.js:310-321).
Unmount ==
    /\ mounted
    /\ mounted' = FALSE
    /\ IF firebaseListenerRef
       THEN /\ attached' = AfterOff(attached)
            /\ firebaseListenerRef' = FALSE
       ELSE UNCHANGED <<attached, firebaseListenerRef>>
    /\ snapshot' = NoSnapshot
    /\ UNCHANGED <<HomeFragment, poller, life, env, hook, hookStatus, main, loading,
                   vehicleLocation, lastVehicleLocationRef>>

\* The expanded map screen is opened again: a new instance with its initial
\* references and state (server.js:254-261).
Mount ==
    /\ ~mounted
    /\ mounted' = TRUE
    /\ firebaseListenerRef' = FALSE
    /\ lastVehicleLocationRef' = NoLocation
    /\ loading' = FALSE
    /\ vehicleLocation' = targetLocation
    /\ snapshot' = NoSnapshot
    /\ UNCHANGED <<HomeFragment, poller, life, env, hook, hookStatus, main, attached>>

NextClient ==
    \/ OnData
    \/ Press
    \/ OnDataExpanded
    \/ ListenerCancelled
    \/ Unmount
    \/ Mount

ClientSpec == Init /\ [][NextClient]_vars

\* ======================================================================
\* Steps of a call, as seen from outside.

\* The step in which call r, holding a parsed feed, runs server.js:80-121 up
\* to its return, its warning or its await of update().
Classifies(r) ==
    /\ r \in InFlight
    /\ r.pc = "json"
    /\ r.feed.entry_id # 0
    /\ log' \in {"nonew", "newdata", "invalid"}
    /\ \/ cyc' = Finished(r)
       \/ \E q \in BagToSet(cyc') : q.pc = "write" /\ cyc' = Moved(r, q)

\* The step in which call r returns without awaiting update().
ReturnsWithoutWrite(r) == cyc' = Finished(r)

\* The step in which the update() that call r awaits resolves.
Writes(r) ==
    /\ r \in InFlight
    /\ r.pc = "write"
    /\ log' = "updated"
    /\ cyc' = Finished(r)

\* The sample is new: an entry id is held and the sample's differs from it.
IsNew(s) == lastEntryId # Null /\ s.entryId # lastEntryId

CycleSucceeded == log \in {"nonew", "invalid", "updated"}

\* ---------------------------------------------------------------- C1
\* C1: on a cold start (lastEntryId = null) the first call whose fetch
\* succeeds adopts the fetched entry id as lastEntryId and returns without
\* issuing a downstream write, whatever the coordinates are.
C1_ColdStartAdoptsWithoutWrite ==
    [][\A r \in InFlight :
          (Classifies(r) /\ lastEntryId = Null)
             => /\ lastEntryId' = r.feed.entry_id
                /\ ReturnsWithoutWrite(r)
                /\ HomeFragment' = HomeFragment]_vars

\* ---------------------------------------------------------------- C2
\* C2: with serialized calls, a new entry id (one observed after the first)
\* with valid coordinates makes the call issue one update() carrying that
\* entry id and the sample's coordinates; an update() that resolves stores
\* them, is the only one that ever resolves for that entry id, and leaves
\* lastEntryId equal to it.
C2_NewEntryWrittenOnce ==
    [][\A r \in InFlight :
          /\ (Classifies(r) /\ IsNew(Sample(r.feed))
                /\ ~isNaN(Sample(r.feed).latitude) /\ ~isNaN(Sample(r.feed).longitude))
               => cyc' = Moved(r, Writing(Sample(r.feed)))
          /\ (Writes(r) /\ r.sample.entryId # firstId)
               => /\ r.sample.entryId \notin written
                  /\ r.sample.entryId \in written'
                  /\ lastEntryId' = r.sample.entryId
                  /\ HomeFragment'.thingSpeakEntryId = r.sample.entryId
                  /\ HomeFragment'.Latitude = r.sample.latitude
                  /\ HomeFragment'.Longitude = r.sample.longitude]_vars

\* A second entry has been written, once, after the first one was adopted.
C2_Witness ==
    /\ cyc = EmptyBag
    /\ log = "updated"
    /\ firstId # Null
    /\ lastEntryId # firstId
    /\ lastEntryId \in written
    /\ HomeFragment.thingSpeakEntryId = lastEntryId

\* ---------------------------------------------------------------- C3
\* C3: a call whose fetched entry id equals the held lastEntryId returns
\* without a downstream write and leaves lastEntryId and the record
\* unchanged, every time that entry id is fetched again.
C3_DuplicateIsNoOp ==
    [][\A r \in InFlight :
          (Classifies(r) /\ lastEntryId # Null /\ r.feed.entry_id = lastEntryId)
             => /\ ReturnsWithoutWrite(r)
                /\ lastEntryId' = lastEntryId
                /\ HomeFragment' = HomeFragment
                /\ written' = written]_vars

\* A call has just found the entry id it already holds.
C3_Witness ==
    /\ log = "nonew"
    /\ lastEntryId # Null
    /\ channel.entry_id = lastEntryId
    /\ cyc = EmptyBag

\* ---------------------------------------------------------------- C4
\* C4: a new sample whose latitude and longitude are both 0 produces no
\* downstream write and does not change lastEntryId.
C4_ZeroZeroNotWritten ==
    [][\A r \in InFlight :
          (Classifies(r) /\ IsNew(Sample(r.feed))
             /\ Sample(r.feed).latitude = 0 /\ Sample(r.feed).longitude = 0)
             => /\ ReturnsWithoutWrite(r)
                /\ lastEntryId' = lastEntryId
                /\ HomeFragment' = HomeFragment]_vars

\* ---------------------------------------------------------------- C5
\* C5: a new sample whose latitude or longitude is NaN is not written, is
\* not counted as a failure of the cycle and does not advance lastEntryId;
\* the downstream record keeps its values.
C5_NaNSampleSkipped ==
    [][\A r \in InFlight :
          (Classifies(r) /\ IsNew(Sample(r.feed))
             /\ (isNaN(Number(r.feed.field8)) \/ isNaN(Number(r.feed.field7))))
             => /\ ReturnsWithoutWrite(r)
                /\ log' = "invalid"
                /\ consecutiveErrors' = 0
                /\ failRun' = 0
                /\ lastEntryId' = lastEntryId
                /\ HomeFragment' = HomeFragment
                /\ written' = written]_vars

\* The first entry was written, a later one with a NaN coordinate was skipped.
C5_Witness ==
    /\ cyc = EmptyBag
    /\ log = "invalid"
    /\ lastEntryId = firstId
    /\ written = {firstId}
    /\ HomeFragment.thingSpeakEntryId = firstId
    /\ channel.entry_id # firstId
    /\ (isNaN(Number(channel.field8)) \/ isNaN(Number(channel.field7)))
    /\ consecutiveErrors = 0

\* ---------------------------------------------------------------- C6
\* C6: with serialized calls, between cycles of the running process
\* consecutiveErrors is the
\* number of failed cycles since the last successful one (fetch failures and
\* write failures alike), and 0 after a successful cycle.
C6_CountsEveryFailedCycle ==
    (proc = "running" /\ cyc = EmptyBag)
       => /\ failRun < MaxRun => consecutiveErrors = failRun
          /\ failRun = MaxRun => consecutiveErrors >= MaxRun

\* ---------------------------------------------------------------- C7
\* C7: at most one call of the cycle function is in flight.
C7_CyclesSerialized == BagCardinality(cyc) <= 1

\* ---------------------------------------------------------------- C8
\* C8: once consecutiveErrors exceeds the threshold the poll interval is
\* above the base interval and at most the ceiling; after a successful cycle
\* the interval is the base interval and consecutiveErrors is 0.
C8_BackoffEscalates ==
    /\ consecutiveErrors > MAX_CONSECUTIVE_ERRORS
          => intervalMs > CHECK_INTERVAL /\ intervalMs <= CeilingMs
    /\ (cyc = EmptyBag /\ CycleSucceeded)
          => intervalMs = CHECK_INTERVAL /\ consecutiveErrors = 0

C10_HealthStatus ==
    response.status # "none"
       => IF response.consecutiveErrors >= MAX_CONSECUTIVE_ERRORS \/ stale
          THEN response.status = "degraded"
          ELSE response.status \in {"healthy", "OK"}


\* ---------------------------------------------------------------- C11
\* C11: a step that serves a health request leaves lastEntryId,
\* consecutiveErrors, the polling timer, the store record and the calls in
\* flight as they were.
C11_HealthReadsOnly ==
    [][response'.status # "none"
         => UNCHANGED <<lastEntryId, consecutiveErrors, intervalMs, timerArmed,
                        HomeFragment, cyc>>]_vars

\* A health response sent between the steps of a call in flight, after a
\* failed cycle.
C11_Witness ==
    /\ response.status = "OK"
    /\ response.consecutiveErrors > 0
    /\ \E r \in InFlight : r.pc = "write"

\* ---------------------------------------------------------------- C12
\* The step in which call r ends in the catch block: the error is logged and
\* the call is no longer in flight.
CycleFails(r) ==
    /\ r \in InFlight
    /\ log' = "error"
    /\ cyc' = Finished(r)

\* C12: a cycle that fails (fetch error, timeout, unreadable or empty body,
\* write error) leaves the process running with its timer armed and no exit
\* code: the call returns, and the timer can start the next one.
C12_FailedCycleKeepsRunning ==
    [][\A r \in InFlight :
          CycleFails(r)
            => /\ proc' = "running"
               /\ exitCode' = "none"
               /\ timerArmed'
               /\ BagCardinality(cyc') < MaxInFlight]_vars

\* After a failed cycle (its line is still the last one logged) the timer
\* has started the next call.
C12_Witness ==
    /\ proc = "running"
    /\ log = "error"
    /\ failRun >= 1
    /\ Fetching \in InFlight


C14_ShutdownReleasesFirst ==
    (signal # "none" /\ proc = "exited")
       => ~(timerArmed /\ listener = "listening")

\* ---------------------------------------------------------------- C15
\* C15: once SIGTERM or SIGINT has been received the process has exited,
\* with code 0, whatever was in flight and whatever the listener does.
C15_SignalTerminates ==
    signal # "none" => (proc = "exited" /\ exitCode = 0)

\* The process has exited on SIGTERM while a call was in flight.
C15_Witness ==
    /\ signal = "SIGTERM"
    /\ proc = "exited"
    /\ abandoned

\* ---------------------------------------------------------------- C16
\* C16: a signal is acted on only when none has been received before; SIGTERM
\* and SIGINT then have the same effect (one handler runs, the process exits
\* with code 0, timer and listener are left alone), and no handler runs
\* after that.
C16_ShutdownOnce ==
    [][(signal' # signal \/ handlersRun' # handlersRun)
         => /\ signal = "none"
            /\ handlersRun = 0
            /\ handlersRun' = 1
            /\ proc' = "exited"
            /\ exitCode' = 0
            /\ UNCHANGED <<timerArmed, listener>>]_vars

\* SIGTERM, for which two handlers are registered, has been received and one
\* handler has run.
C16_Witness ==
    /\ signal = "SIGTERM"
    /\ handlersRun = 1
    /\ exitCode = 0

\* ---------------------------------------------------------------- C17
\* C17: once a shutdown signal has been received no call of the cycle
\* function starts (none issues a fetch) and none goes on to issue a write.
C17_NoCycleAfterSignal ==
    [][signal # "none"
         => /\ CopiesIn(Fetching, cyc') <= CopiesIn(Fetching, cyc)
            /\ \A q \in BagToSet(cyc') : q.pc = "write" => q \in InFlight]_vars

\* After SIGINT the timer was never cleared, and still nothing is in flight
\* while the channel holds an entry the process has not seen.
C17_Witness ==
    /\ signal = "SIGINT"
    /\ timerArmed
    /\ cyc = EmptyBag
    /\ channel.entry_id # 0
    /\ written = {}


C19_OneStartupCycle ==
    [][/\ proc = "starting"
          => (cyc = EmptyBag /\ ~timerArmed /\ cyc' \in {cyc, SetToBag({Fetching})})
       /\ proc = "starting" /\ proc' = "running"
          => (cyc' = SetToBag({Fetching}) /\ timerArmed')
       /\ proc # "starting" /\ CopiesIn(Fetching, cyc') > CopiesIn(Fetching, cyc)
          => (proc = "running" /\ timerArmed /\ cyc' = Started(Fetching))]_vars

\* The process has just started: its one call awaits the fetch, nothing has
\* been logged.
C19_Witness ==
    /\ proc = "running"
    /\ timerArmed
    /\ cyc = SetToBag({Fetching})
    /\ log = "none"
    /\ lastEntryId = Null

\* ---------------------------------------------------------------- C20
\* C20: every call that awaits the upstream, for the headers or for the
\* body, has its abort timer armed.
C20_FetchBounded ==
    \A r \in InFlight : r.pc \in {"fetch", "json"} => r.timeoutArmed


\* ---------------------------------------------------------------- C21
\* C21: a call that ends on a response that is not ok throws an error that
\* carries the status of that response, a call whose body holds no feed
\* ends only by throwing (the empty-feed error, or the error of a body that
\* cannot be read), and either ending is counted in consecutiveErrors and
\* leaves lastEntryId and the store record as they were.
C21_StatusAndEmptyFeedFail ==
    [][\A r \in InFlight :
          /\ (CycleFails(r) /\ thrown'.kind = "ThingSpeak API error")
                => (r.pc = "fetch" /\ thrown'.status \in BadStatuses)
          /\ (CycleFails(r) /\ thrown' = EmptyError)
                => (r.pc = "json" /\ r.feed.entry_id = 0)
          /\ (r.pc = "json" /\ r.feed.entry_id = 0 /\ cyc' # cyc /\ proc' = "running")
                => (CycleFails(r) /\ thrown' \in {EmptyError, BodyError})
          /\ (CycleFails(r) /\ thrown'.kind \in {"ThingSpeak API error", EmptyError.kind})
                => /\ consecutiveErrors' = consecutiveErrors + 1
                   /\ lastEntryId' = lastEntryId
                   /\ HomeFragment' = HomeFragment
                   /\ written' = written]_vars

\* After an entry has been written, a later call has ended on a response
\* with status 500.
C21_Witness ==
    /\ thrown = ApiError(500)
    /\ consecutiveErrors = 1
    /\ lastEntryId # Null
    /\ written # {}


\* ---------------------------------------------------------------- C22
\* C22: a step that writes the store record changes only Latitude,
\* Longitude, updatedAt, thingSpeakEntryId and thingSpeakTimestamp:
\* IgnitionStatus stays as it was stored.
C22_WritesMerge ==
    [][HomeFragment' # HomeFragment
         => HomeFragment'.IgnitionStatus = HomeFragment.IgnitionStatus]_vars


\* ---------------------------------------------------------------- C30
\* C30: the webhook handler answers 400 only to a body that lacks a
\* coordinate field; a body that carries both, a 0 included, is written and
\* answered 200, or answered 500 when the write fails.
C30_WebhookAnswers ==
    /\ hookStatus = 400 => (hook.field1 = Absent \/ hook.field2 = Absent)
    /\ hookStatus = 200
         => /\ hook.field1 # Absent /\ hook.field2 # Absent
            /\ HomeFragment.Latitude = hook.field1
            /\ HomeFragment.Longitude = hook.field2
    /\ hookStatus = 500 => (hook.field1 # Absent /\ hook.field2 # Absent)


\* ---------------------------------------------------------------- C23
\* C23: a process started without SERVICEACCOUNTKEY or without
\* FIREBASE_DATABASE_URL never runs: its timer is never armed, no call of the
\* cycle function is ever in flight, its listener never starts, and once the
\* module has been loaded the process has ended with code 1.
C23_MissingConfigFailsAtStartup ==
    ~(env.SERVICEACCOUNTKEY /\ env.FIREBASE_DATABASE_URL)
       => /\ proc # "running"
          /\ ~timerArmed
          /\ cyc = EmptyBag
          /\ listener = "none"
          /\ written = {}
          /\ proc = "exited" => (exitCode = 1 /\ log = "crash")

\* The key is present, the store address is not: the load has failed while
\* the channel already holds an entry.
C23_Witness ==
    /\ env.SERVICEACCOUNTKEY
    /\ ~env.FIREBASE_DATABASE_URL
    /\ proc = "exited"
    /\ channel.entry_id # 0


\* ---------------------------------------------------------------- C24
\* C24 as stated: whenever the process holds an entry id, an update()
\* carrying that id has resolved.
C24_LastEntryIdWasWritten ==
    (proc = "running" /\ lastEntryId # Null) => lastEntryId \in written

\* C24: the entry id adopted on the cold start aside (it is held before its
\* update() is even issued), lastEntryId changes only in the step in which
\* an update() carrying that id resolves, and a call that ends in the catch
\* block leaves it as it was.
C24_AdvancesOnlyAfterWrite ==
    [][proc' = "running"
         => /\ lastEntryId' # lastEntryId
                => \/ lastEntryId = Null /\ lastEntryId' = firstId'
                   \/ \E r \in InFlight :
                        /\ Writes(r)
                        /\ lastEntryId' = r.sample.entryId
                        /\ lastEntryId' \in written'
            /\ \A r \in InFlight : CycleFails(r) => lastEntryId' = lastEntryId]_vars

\* The update() of a later entry has been rejected: the id held is still the
\* one written before, and the channel's entry is still to be written.
C24_Witness ==
    /\ thrown = WriteError
    /\ lastEntryId \in written
    /\ channel.entry_id # lastEntryId
    /\ channel.entry_id \notin written


\* ---------------------------------------------------------------- C25
\* C25: if from some time on the process runs (its error counter below the
\* bound of the model) and the channel's latest entry stays the same entry
\* with non-NaN coordinates, then an update() carrying that entry id
\* eventually resolves.
C25_AtLeastOnce ==
    \A x \in 1..MaxEntry :
       <>[](/\ proc = "running"
            /\ consecutiveErrors < MaxErrors
            /\ channel.entry_id = x
            /\ CoordsValid(Sample(channel).latitude, Sample(channel).longitude))
          => <>(x \in written)


\* ---------------------------------------------------------------- C26
\* C26: an update() never resolves for an entry id for which one has
\* resolved before.
C26_NoIdWrittenTwice ==
    [][\A r \in InFlight : Writes(r) => r.sample.entryId \notin written]_vars

\* ---------------------------------------------------------------- C27
\* C27: while the process runs, neither lastEntryId nor the entry id held in
\* the store record moves to an older entry id.
C27_IdsNeverMoveBack ==
    [][proc' = "running"
         => /\ lastEntryId' >= lastEntryId
            /\ HomeFragment'.thingSpeakEntryId >= HomeFragment.thingSpeakEntryId]_vars


\* The snapshot the step has delivered to the main screen carries two
\* coordinates that are numbers.
SnapshotCoordsValid ==
    CoordsValid(NumberOfValue(snapshot'.Latitude), NumberOfValue(snapshot'.Longitude))

\* The step is onData of the main screen.
MainScreenOnData == snapshot'.screen = "main"

\* C28 (as stated): whenever the main screen's listener receives a snapshot
\* whose ignition is 0 while a position is recorded, the displayed position
\* becomes the recorded one, whatever coordinates the snapshot carries -- the
\* snapshot's coordinates may be missing or not numbers.
C28_FrozenWhateverCoordinates ==
    [][(MainScreenOnData /\ snapshot'.IgnitionStatus = 0
          /\ lastLocationRef # NoLocation)
        => locationFromDB' = lastLocationRef]_vars

\* C28: for every sequence of snapshots the main screen's listener receives:
\* ignition 0 with numeric coordinates while a position is recorded shows the
\* recorded position and keeps it; ignition 1 with numeric coordinates makes
\* both the displayed and the recorded position the snapshot's
\* [longitude, latitude]; coordinates that are not numbers, or an ignition
\* that is neither 0 nor 1, clear the displayed position and leave the
\* recorded one as it was.
C28_IgnitionGatedDisplay ==
    [][MainScreenOnData =>
        /\ (snapshot'.IgnitionStatus = 0 /\ SnapshotCoordsValid
              /\ lastLocationRef # NoLocation)
           => /\ locationFromDB' = lastLocationRef
              /\ lastLocationRef' = lastLocationRef
        /\ (snapshot'.IgnitionStatus = 1 /\ SnapshotCoordsValid)
           => /\ locationFromDB' = <<snapshot'.Longitude, snapshot'.Latitude>>
              /\ lastLocationRef' = <<snapshot'.Longitude, snapshot'.Latitude>>
        /\ (~SnapshotCoordsValid \/ snapshot'.IgnitionStatus \notin {0, 1})
           => /\ locationFromDB' = NoLocation
              /\ lastLocationRef' = lastLocationRef]_vars

\* An ignition-off snapshot with other numeric coordinates has arrived while a
\* position was recorded, and the recorded position is the one displayed.
C28_Witness ==
    /\ snapshot.screen = "main"
    /\ snapshot.IgnitionStatus = 0
    /\ latestIgnition = 0
    /\ IsNumber(snapshot.Latitude) /\ IsNumber(snapshot.Longitude)
    /\ lastLocationRef # NoLocation
    /\ lastLocationRef # <<snapshot.Longitude, snapshot.Latitude>>
    /\ locationFromDB = lastLocationRef

\* The step is a press of the third button of the expanded map screen.
ThirdButtonPress == mounted /\ mounted' /\ firebaseListenerRef' # firebaseListenerRef

\* C29: the expanded map screen has at most one store listener attached at
\* any time; a listener is attached only by a step that starts with none
\* attached, a press of the third button with one attached detaches it and
\* one with none attached and no reference kept attaches one, and once the
\* screen is unmounted none remains.
C29_AtMostOneListener ==
    [][/\ attached' <= 1
       /\ attached' > attached => attached = 0
       /\ (ThirdButtonPress /\ attached > 0) => attached' = 0
       /\ (ThirdButtonPress /\ attached = 0 /\ ~firebaseListenerRef) => attached' = 1
       /\ ~mounted' => attached' = 0]_vars

\* The screen has been left after its listener had been attached and had
\* delivered a snapshot, and nothing remains attached.
C29_Witness ==
    /\ ~mounted
    /\ attached = 0
    /\ ~firebaseListenerRef
    /\ lastVehicleLocationRef # NoLocation

====
